---- MODULE Spec2Model ----
(***************************************************************************)
(* Model of the compas_view2 viewer app (src/compas_view2/app/app.py) and  *)
(* of the script scripts/v120_on_select.py that drives it.                 *)
(*                                                                         *)
(* App.__init__, App.add and App.show are translated from app.py, the      *)
(* callback on_selected from the script.  The collaborators app.py imports *)
(* but which are not part of the sources at hand (Object, View120/View330, *)
(* Selector, the periodic scheduler behind viewer.on / viewer.run) are     *)
(* modelled from the specification, sections 4.1 - 4.5.                    *)
(***************************************************************************)
EXTENDS Integers, Sequences, FiniteSets, TLC

VARIABLES
    pc,             \* "start" | "ready" | "failed": where the App constructor got to
    version,        \* the version argument of the last App(...) call
    glFormat,       \* the local QSurfaceFormat of __init__: <<>> or <<[version, profile]>>
    defaultFormat,  \* QSurfaceFormat's process-wide default format, same shape
    qapp,           \* TRUE iff a QCoreApplication instance exists
    references,     \* app.references
    window,         \* TRUE iff self.window exists
    view,           \* "none" | "View120" | "View330": class of self.view
    controller,     \* TRUE iff self.controller exists
    selector,       \* TRUE iff self.selector exists
    shown,          \* TRUE once show() has shown the window
    valid,          \* self.view.isValid()
    frames,         \* number of frames frames so far
    heap,           \* every Object built so far, indexed by identity
    objects,        \* self.view.objects: a dict, as its items in insertion order
    instances,      \* the objects the selector knows
    selected,       \* the selection set, in order of selection
    ticks,          \* scheduler ticks elapsed
    invocations,    \* calls of on_selected so far
    seen,           \* value of viewer.selector.selected read by the last on_selected
    printed,        \* what the last on_selected call printed: <<>> or <<kind>>
    result          \* outcome of the last call: [op, ret, exc]

vars == <<pc, version, glFormat, defaultFormat, qapp, references, window, view,
          controller, selector, shown, valid, frames, heap, objects, instances,
          selected, ticks, invocations, seen, printed, result>>

appVars == <<pc, version, glFormat, defaultFormat, qapp, references, window,
             view, controller, selector>>
sceneVars == <<heap, objects, instances, selected>>
tickVars == <<ticks, invocations, seen, printed>>

----------------------------------------------------------------------------
(* Bounds of the model *)

MaxObjects == 3
MaxFrames == 2
MaxTicks == 10

----------------------------------------------------------------------------
(* Values *)

\* Python's None, and a value v, as the return value of a call
None == <<>>
Some(v) == <<v>>

\* arguments tried for App(version=...)
VersionArgs == {"120", "330", "440"}

\* geometric variants handed to add: two that Object.build supports, one it does not
SupportedKinds == {"Polygon", "Capsule"}
DataArgs == SupportedKinds \cup {"Blob"}

\* VERSIONS with a third entry that __init__ has no branch for
VERSIONS_more ==
    [v \in {"120", "330", "440"} |->
        IF v = "120" THEN <<2, 1>> ELSE IF v = "330" THEN <<3, 3>> ELSE <<4, 4>>]
VERSIONS == [v \in {"120", "330"} |-> IF v = "120" THEN <<2, 1>> ELSE <<3, 3>>]

Range(s) == {s[i] : i \in 1..Len(s)}

Returned(op, ret) == [op |-> op, ret |-> ret, exc |-> "none"]
Raised(op, exc) == [op |-> op, ret |-> None, exc |-> exc]

----------------------------------------------------------------------------
(* App.__init__ *)

Init ==
    /\ pc = "start"
    /\ version = "none"
    /\ glFormat = <<>>
    /\ defaultFormat = <<>>
    /\ qapp \in BOOLEAN
    /\ references = {}
    /\ window = FALSE
    /\ view = "none"
    /\ controller = FALSE
    /\ selector = FALSE
    /\ shown = FALSE
    /\ valid = FALSE
    /\ frames = 0
    /\ heap = <<>>
    /\ objects = <<>>
    /\ instances = {}
    /\ selected = <<>>
    /\ ticks = 0
    /\ invocations = 0
    /\ seen = <<>>
    /\ printed = <<>>
    /\ result = Returned("none", None)

\* init_toolbar(items): nothing without items; with items it reaches for
\* self.undo, which App does not define
init_toolbar(items) == IF items THEN "AttributeError" ELSE "none"

\* App(version=v), with a config.json whose toolbar entry is non-empty (toolbar
\* = TRUE) or empty or absent; an exception of the constructor ends the run
App_init(v, toolbar) ==
    /\ pc = "start"
    /\ version' = v
    /\ IF v \notin DOMAIN VERSIONS
       THEN /\ pc' = "failed"
            /\ result' = Raised("__init__", "Exception")
            /\ UNCHANGED <<glFormat, defaultFormat, qapp, references, window,
                           view, controller, selector>>
       ELSE IF v \notin {"330", "120"}
       THEN /\ pc' = "failed"
            /\ glFormat' = <<[version |-> VERSIONS[v], profile |-> "none"]>>
            /\ result' = Raised("__init__", "NotImplementedError")
            /\ UNCHANGED <<defaultFormat, qapp, references, window, view,
                           controller, selector>>
       ELSE LET profile == IF v = "330" THEN "CoreProfile" ELSE "CompatibilityProfile"
                fmt == <<[version |-> VERSIONS[v], profile |-> profile]>>
            IN  /\ glFormat' = fmt
                /\ defaultFormat' = fmt
                /\ view' = IF v = "330" THEN "View330" ELSE "View120"
                /\ qapp' = TRUE
                /\ window' = TRUE
                /\ controller' = TRUE
                /\ references' = {"window"}
                /\ selector' = TRUE
                /\ IF init_toolbar(toolbar) = "none"
                   THEN /\ pc' = "ready"
                        /\ result' = Returned("__init__", None)
                   ELSE /\ pc' = "failed"
                        /\ result' = Raised("__init__", init_toolbar(toolbar))
    /\ UNCHANGED <<shown, valid, frames>>
    /\ UNCHANGED sceneVars
    /\ UNCHANGED tickVars

----------------------------------------------------------------------------
(* self.view.objects: a Python dict, kept as its items in insertion order *)

DictKeys(d) == {d[i].key : i \in 1..Len(d)}
DictValues(d) == {d[i].value : i \in 1..Len(d)}

\* d[k] = v: an existing key keeps its place and gets the new value,
\* a new key goes to the end
DictSet_front(d, k, v) ==
    IF k \in DictKeys(d)
    THEN [i \in 1..Len(d) |-> IF d[i].key = k THEN [key |-> k, value |-> v] ELSE d[i]]
    ELSE <<[key |-> k, value |-> v]>> \o d
DictSet(d, k, v) ==
    IF k \in DictKeys(d)
    THEN [i \in 1..Len(d) |-> IF d[i].key = k THEN [key |-> k, value |-> v] ELSE d[i]]
    ELSE Append(d, [key |-> k, value |-> v])

\* del d[k]
DictDel(d, k) == SelectSeq(d, LAMBDA e : e.key # k)

\* d.get(k): <<>> when absent
DictGet(d, k) ==
    IF k \in DictKeys(d)
    THEN Some(d[CHOOSE i \in 1..Len(d) : d[i].key = k].value)
    ELSE None

\* the keys in iteration order
all == [i \in 1..Len(objects) |-> objects[i].key]

----------------------------------------------------------------------------
(* Object *)

\* Object.build(data): a new, uninitialized wrapper, or nothing for a variant
\* that has no wrapper
build(data) ==
    IF data \in SupportedKinds
    THEN Some([data |-> data, initialized |-> FALSE, inits |-> 0, destroyed |-> FALSE])
    ELSE None

\* obj.init(): uploads the buffers of the object
ObjInit(o) == [o EXCEPT !.initialized = TRUE, !.inits = @ + 1]

\* the key under which add files the object obj wrapping data: the object itself
\* the key taken from the wrapped data instead: equal data, equal key
Key_data(obj, data) == IF data = "Polygon" THEN 1 ELSE 2
Key(obj, data) == obj

----------------------------------------------------------------------------
(* App.add, App.show *)

\* add without the isValid branch: initialization always left to the next draw
add_deferred(data) ==
    /\ pc = "ready"
    /\ IF build(data) = None
       THEN /\ result' = Raised("add", "UnsupportedGeometryKind")
            /\ UNCHANGED <<heap, objects, instances>>
       ELSE LET obj == Len(heap) + 1
                built == build(data)[1]
            IN  /\ obj <= MaxObjects
                /\ objects' = DictSet(objects, Key(obj, data), obj)
                /\ instances' = instances \cup {obj}
                /\ heap' = Append(heap, built)
                /\ result' = Returned("add", None)
    /\ UNCHANGED <<selected, shown, valid, frames>>
    /\ UNCHANGED appVars
    /\ UNCHANGED tickVars

\* add that files a wrapper before the variant is known to be supported
add_partial(data) ==
    /\ pc = "ready"
    /\ LET obj == Len(heap) + 1
           built == [data |-> data, initialized |-> FALSE, inits |-> 0,
                     destroyed |-> FALSE]
       IN  /\ obj <= MaxObjects
           /\ objects' = DictSet(objects, Key(obj, data), obj)
           /\ instances' = instances \cup {obj}
           /\ IF build(data) = None
              THEN /\ heap' = Append(heap, built)
                   /\ result' = Raised("add", "UnsupportedGeometryKind")
              ELSE /\ heap' = Append(heap, IF valid THEN ObjInit(built) ELSE built)
                   /\ result' = Returned("add", None)
    /\ UNCHANGED <<selected, shown, valid, frames>>
    /\ UNCHANGED appVars
    /\ UNCHANGED tickVars

\* add that, with a valid context, initializes every object of the registry
add_reinit(data) ==
    /\ pc = "ready"
    /\ IF build(data) = None
       THEN /\ result' = Raised("add", "UnsupportedGeometryKind")
            /\ UNCHANGED <<heap, objects, instances>>
       ELSE LET obj == Len(heap) + 1
                built == build(data)[1]
                filed == Append(heap, built)
            IN  /\ obj <= MaxObjects
                /\ objects' = DictSet(objects, Key(obj, data), obj)
                /\ instances' = instances \cup {obj}
                /\ heap' = IF valid
                           THEN [h \in 1..Len(filed) |->
                                   IF h \in DictValues(objects')
                                   THEN ObjInit(filed[h]) ELSE filed[h]]
                           ELSE filed
                /\ result' = Returned("add", None)
    /\ UNCHANGED <<selected, shown, valid, frames>>
    /\ UNCHANGED appVars
    /\ UNCHANGED tickVars

add(data) ==
    /\ pc = "ready"
    /\ IF build(data) = None
       THEN /\ result' = Raised("add", "UnsupportedGeometryKind")
            /\ UNCHANGED <<heap, objects, instances>>
       ELSE LET obj == Len(heap) + 1
                built == build(data)[1]
            IN  /\ obj <= MaxObjects
                /\ objects' = DictSet(objects, Key(obj, data), obj)
                /\ instances' = instances \cup {obj}
                /\ heap' = Append(heap, IF valid THEN ObjInit(built) ELSE built)
                /\ result' = Returned("add", None)
    /\ UNCHANGED <<selected, shown, valid, frames>>
    /\ UNCHANGED appVars
    /\ UNCHANGED tickVars

show ==
    /\ pc = "ready"
    /\ ~shown
    /\ shown' = TRUE
    /\ result' = Returned("show", None)
    /\ UNCHANGED <<valid, frames>>
    /\ UNCHANGED appVars
    /\ UNCHANGED sceneVars
    /\ UNCHANGED tickVars

----------------------------------------------------------------------------
(* The view *)

\* the rendering context of the shown view becomes valid
initializeGL ==
    /\ shown
    /\ ~valid
    /\ valid' = TRUE
    /\ result' = Returned("initializeGL", None)
    /\ UNCHANGED <<shown, frames>>
    /\ UNCHANGED appVars
    /\ UNCHANGED sceneVars
    /\ UNCHANGED tickVars

\* one frame: every registry entry that is not initialized yet is initialized,
\* then frames
paintGL ==
    /\ valid
    /\ frames < MaxFrames
    /\ frames' = frames + 1
    /\ heap' = [h \in 1..Len(heap) |->
                  IF h \in DictValues(objects) /\ ~heap[h].initialized
                  THEN ObjInit(heap[h]) ELSE heap[h]]
    /\ result' = Returned("paintGL", None)
    /\ UNCHANGED <<objects, instances, selected, shown, valid>>
    /\ UNCHANGED appVars
    /\ UNCHANGED tickVars

----------------------------------------------------------------------------
(* The registry's remove and get *)

\* the handles tried for the operations that take one
Handles == 1..MaxObjects

get(h) == DictGet(objects, h)

\* the selection set without h
Purge(sel, h) == SelectSeq(sel, LAMBDA x : x # h)

\* remove that leaves the selection set alone
remove_keep_selection(h) ==
    /\ pc = "ready"
    /\ IF h \notin DictKeys(objects)
       THEN /\ result' = Raised("remove", "UnknownHandle")
            /\ UNCHANGED <<heap, objects>>
       ELSE /\ heap' = [heap EXCEPT ![get(h)[1]].destroyed = TRUE]
            /\ objects' = DictDel(objects, h)
            /\ result' = Returned("remove", None)
    /\ UNCHANGED <<selected, instances, shown, valid, frames>>
    /\ UNCHANGED appVars
    /\ UNCHANGED tickVars

remove(h) ==
    /\ pc = "ready"
    /\ IF h \notin DictKeys(objects)
       THEN /\ result' = Raised("remove", "UnknownHandle")
            /\ UNCHANGED <<heap, objects, selected>>
       ELSE /\ heap' = [heap EXCEPT ![get(h)[1]].destroyed = TRUE]
            /\ objects' = DictDel(objects, h)
            /\ selected' = Purge(selected, h)
            /\ result' = Returned("remove", None)
    /\ UNCHANGED <<instances, shown, valid, frames>>
    /\ UNCHANGED appVars
    /\ UNCHANGED tickVars

----------------------------------------------------------------------------
(* The selection engine *)

SelectOp(sel, h) == IF h \in Range(sel) THEN sel ELSE Append(sel, h)
DeselectOp(sel, h) == Purge(sel, h)
ToggleOp_select(sel, h) == SelectOp(sel, h)
ToggleOp(sel, h) == IF h \in Range(sel) THEN DeselectOp(sel, h) ELSE SelectOp(sel, h)

\* a selection operation on handle h; a handle that is not in the registry is
\* not found, and nothing changes
Selection(op, h, sel) ==
    /\ pc = "ready"
    /\ selected' = IF h \in DictKeys(objects) THEN sel ELSE selected
    /\ result' = Returned(op, None)
    /\ UNCHANGED <<heap, objects, instances, shown, valid, frames>>
    /\ UNCHANGED appVars
    /\ UNCHANGED tickVars

select(h) == Selection("select", h, SelectOp(selected, h))
deselect(h) == Selection("deselect", h, DeselectOp(selected, h))
toggle(h) == Selection("toggle", h, ToggleOp(selected, h))

clear ==
    /\ pc = "ready"
    /\ selected' = <<>>
    /\ result' = Returned("clear", None)
    /\ UNCHANGED <<heap, objects, instances, shown, valid, frames>>
    /\ UNCHANGED appVars
    /\ UNCHANGED tickVars

----------------------------------------------------------------------------
(* The periodic callback of the script *)

\* a callback that looks at the selection it captured when it was defined
on_selected_captured(frame) ==
    /\ invocations' = invocations + 1
    /\ seen' = <<>>
    /\ printed' = <<>>
\* on_selected(frame): reads viewer.selector.selected, and with exactly one
\* object selected prints the type of its data
on_selected(frame) ==
    /\ invocations' = invocations + 1
    /\ seen' = selected
    /\ printed' = IF Len(selected) = 1 THEN <<heap[selected[1]].data>> ELSE <<>>

\* one tick of the interval timer the callback is registered with
tick ==
    /\ shown
    /\ ticks < MaxTicks
    /\ ticks' = ticks + 1
    /\ on_selected(ticks + 1)
    /\ result' = Returned("on_selected", None)
    /\ UNCHANGED <<shown, valid, frames>>
    /\ UNCHANGED appVars
    /\ UNCHANGED sceneVars

----------------------------------------------------------------------------

Next ==
    \/ \E v \in VersionArgs, toolbar \in BOOLEAN : App_init(v, toolbar)
    \/ \E data \in DataArgs : add(data)
    \/ show
    \/ initializeGL
    \/ paintGL
    \/ \E h \in Handles : remove(h)
    \/ \E h \in Handles : select(h)
    \/ \E h \in Handles : deselect(h)
    \/ \E h \in Handles : toggle(h)
    \/ clear

Spec == Init /\ [][Next]_vars

----------------------------------------------------------------------------
(* The session of scripts/v120_on_select.py: App(), the two adds, then the   *)
(* event loop, in which frames, timer ticks and the user's selections         *)
(* interleave                                                                 *)

SessionNext ==
    \/ \E toolbar \in BOOLEAN : App_init("120", toolbar)
    \/ Len(heap) = 0 /\ add("Polygon")
    \/ Len(heap) = 1 /\ ~shown /\ add("Capsule")
    \/ Len(heap) = 2 /\ show
    \/ initializeGL
    \/ paintGL
    \/ shown /\ \E h \in Handles : select(h)
    \/ shown /\ \E h \in Handles : deselect(h)
    \/ shown /\ \E h \in Handles : toggle(h)
    \/ shown /\ clear
    \/ tick

SpecSession == Init /\ [][SessionNext]_vars

----------------------------------------------------------------------------
(* Properties *)

Live == {h \in 1..Len(heap) : ~heap[h].destroyed}
NoDuplicates(sel) == \A i, j \in 1..Len(sel) : sel[i] = sel[j] => i = j
Increasing(s) == \A i, j \in 1..Len(s) : i < j => s[i] < s[j]
Toggled2(sel, h) == ToggleOp(ToggleOp(sel, h), h)

\* C1: every successful add returns the handle of the object it just put in
\* the registry: the return value is present, is a key of the registry, and
\* get resolves it to the object built by that call.
C1_AddReturnsHandle ==
    (result.op = "add" /\ result.exc = "none") =>
        /\ result.ret # None
        /\ result.ret[1] \in DictKeys(objects)
        /\ get(result.ret[1]) = Some(Len(heap))

C2_StateOk ==
    /\ version \in {"none", "440"} =>
        /\ pc # "ready"
        /\ glFormat = <<>> /\ defaultFormat = <<>> /\ references = {}
        /\ ~window /\ view = "none" /\ ~controller /\ ~selector
    /\ pc = "ready" =>
        /\ version \in {"120", "330"}
        /\ window /\ controller /\ selector /\ qapp
C3_BeforeAndAfter ==
    /\ ~valid => \A h \in 1..Len(heap) : ~heap[h].initialized
    /\ frames >= 1 => \A h \in DictValues(objects) : heap[h].initialized
\* C3: an object added while the context is not valid is uninitialized, an
\* uninitialized object becomes initialized only by the first frame, and from
\* the first frame on every object of the registry is initialized (the first
\* draw initialized those present, add those that came later); so with two
\* objects added before the first frame both are uninitialized before it and
\* initialized after it.
C3_InitTiming ==
    /\ []C3_BeforeAndAfter
    /\ [][\A h \in 1..Len(heap) :
            (~heap[h].initialized /\ heap'[h].initialized) =>
                (frames = 0 /\ frames' = 1)]_vars
    /\ [][(Len(heap') > Len(heap)) =>
            (heap'[Len(heap')].initialized <=> valid)]_vars
C3_Witness ==
    /\ frames = 1
    /\ result.op = "paintGL"
    /\ Len(objects) = 2
    /\ heap[1].data = "Polygon" /\ heap[2].data = "Capsule"
    /\ heap[1].initialized /\ heap[2].initialized
    /\ selected = <<>>

\* C4: the registry iterates over exactly the handles added and not removed,
\* each once, in the order they were added (handles are handed out in
\* increasing order, so that order is the increasing one).
C4_InsertionOrder ==
    /\ DictKeys(objects) = Live
    /\ Len(objects) = Cardinality(Live)
    /\ Increasing(all)
C4_Witness ==
    /\ Len(heap) = 3
    /\ heap[2].destroyed
    /\ all = <<1, 3>>

\* C5: an add of an unsupported variant fails, and the failing call changes
\* neither the registry, nor the selector's objects, nor the selection, nor
\* any object; no object of an unsupported variant ever exists.
C5_NoPartialInsert ==
    /\ [](\A h \in 1..Len(heap) : heap[h].data \in SupportedKinds)
    /\ [][(result'.op = "add" /\ result'.exc # "none") =>
            UNCHANGED <<heap, objects, instances, selected>>]_vars
C5_Witness ==
    /\ result = Raised("add", "UnsupportedGeometryKind")
    /\ Len(objects) = 2
    /\ selected = <<2>>
    /\ heap[1].initialized /\ ~heap[1].destroyed

\* C6: the selection is always a subset of the registry's handles, and a
\* removal takes the removed handle out of the selection in the same step.
C6_SelectedInRegistry == Range(selected) \subseteq DictKeys(objects)
C6_Witness ==
    /\ result = Returned("remove", None)
    /\ heap[1].destroyed
    /\ objects # <<>>
    /\ selected # <<>>

C8_StateOk ==
    /\ Cardinality(DictKeys(objects)) = Len(objects)
    /\ Live = 1..Len(heap) => Len(objects) = Len(heap)
\* C8: every successful add makes a new registry entry under a new handle,
\* whatever the data: no add overwrites an entry, and with nothing removed
\* the registry holds as many objects as were added.
C8_IdentityNotData ==
    /\ []C8_StateOk
    /\ [][(Len(heap') > Len(heap)) =>
            /\ Len(objects') = Len(objects) + 1
            /\ SubSeq(objects', 1, Len(objects)) = objects]_vars
C8_Witness ==
    /\ Len(heap) = 2
    /\ heap[1].data = heap[2].data
    /\ all = <<1, 2>>

\* C9: no object is initialized more than once, and the flag says whether it
\* has been.
C9_InitAtMostOnce ==
    \A h \in 1..Len(heap) :
        /\ heap[h].inits <= 1
        /\ heap[h].initialized <=> heap[h].inits = 1
C9_Witness ==
    /\ frames = 2
    /\ result.op = "paintGL"
    /\ Len(objects) = 3
    /\ \A h \in 1..3 : heap[h].inits = 1

====
